---- MODULE Spec2Model ----
(***************************************************************************)
(* The oss-cad-suite package builder: src/build.py (the ".zip" script with *)
(* a text BUILD-INFO file) and src/.github/workflows/build.py (the         *)
(* ".tar.gz" script with a build-info.json file).  One run of main() is a  *)
(* straight line of filesystem and subprocess steps; the scratch           *)
(* directories _upstream/<platform_id>/ and _packages/<platform_id>/ live  *)
(* on disk and outlive the run.                                            *)
(***************************************************************************)
EXTENDS Naturals, Sequences, FiniteSets, TLC

VARIABLES
    variant,      \* which script runs: "zip" (src/build.py) or "targz" (workflows/build.py)
    content,      \* content[p]: the tree inside the upstream archive served for platform p
    info,         \* the build-info input file named on the command line
    upDir,        \* upDir[p]: _upstream/p exists
    arch,         \* arch[p]: the downloaded archive _upstream/p/<yosys_fname>
    archDup,      \* archDup[p]: a wget duplicate <yosys_fname>.1 exists
    srcDir,       \* srcDir[p]: _upstream/p/oss-cad-suite exists
    srcTree,      \* srcTree[p]: its entries
    pkgDir,       \* pkgDir[p]: _packages/p exists
    pkgTree,      \* pkgTree[p]: its entries (the metadata file apart)
    pkgMeta,      \* pkgMeta[p]: the metadata file in _packages/p
    outFile,      \* outFile[name]: the file _packages/name
    pc,           \* pc[r]: the position of process r in main()
    args,         \* args[r]: its command line
    st,           \* st[r]: exit status, failing step, reported path, cause of the failure
    hist,         \* hist[r]: the steps it attempted, those that read the build-info input,
                  \* what it found in the scratch area, whether another invocation for
                  \* its platform id was alive with it or has started since
    runs          \* number of invocations started so far

envvars == <<variant, content, info>>
fsvars == <<upDir, arch, archDup, srcDir, srcTree, pkgDir, pkgTree, pkgMeta, outFile>>
procvars == <<pc, args, st, hist, runs>>
vars == <<variant, content, info, upDir, arch, archDup, srcDir, srcTree, pkgDir, pkgTree,
          pkgMeta, outFile, pc, args, st, hist, runs>>

-----------------------------------------------------------------------------
(* Bounds of the model *)

\* Invocations started in one behaviour.
MaxRuns == 2
\* Package tags offered on the command line.
NumTags == 1

\* Registry keys offered on the command line (beside the unknown one).
NumIds == 2

TagPool == <<"20250608", "20250609", "20250610">>
Tags == {TagPool[i] : i \in 1..NumTags}

\* The two invocations that may be alive at once.
Procs == {"r1", "r2"}

-----------------------------------------------------------------------------
(* Constants of the scripts *)

Variants == {"zip", "targz"}

YOSYS_RELEASE_TAG == "2025-06-08"

\* YOSYS_RELEASE_TAG.replace("-", "")
YOSYS_FILE_TAG == "20250608"

UnixExecutables ==
    <<"bin/yosys", "bin/nextpnr-ice40", "bin/nextpnr-ecp5", "bin/nextpnr-himbaechel",
      "bin/dot", "bin/gtkwave">>

WindowsExecutables ==
    <<"bin/yosys.exe", "bin/nextpnr-ice40.exe", "bin/nextpnr-ecp5.exe",
      "bin/nextpnr-himbaechel.exe", "bin/gtkwave.exe">>

\* The registry: yosys platform id, archive extension, unarchive command,
\* and the data of the packager function (its list of executables).
PLATFORMS ==
    [p \in {"darwin-arm64", "darwin-x86-64", "linux-x86-64", "linux-aarch64", "windows-amd64"} |->
        CASE p = "darwin-arm64"  -> [yosys_platform_id |-> "darwin-arm64", yosys_file_ext |-> "tgz",
                                     unarchive_cmd |-> <<"tar", "zxf">>, executables |-> UnixExecutables]
          [] p = "darwin-x86-64" -> [yosys_platform_id |-> "darwin-x64", yosys_file_ext |-> "tgz",
                                     unarchive_cmd |-> <<"tar", "zxf">>, executables |-> UnixExecutables]
          [] p = "linux-x86-64"  -> [yosys_platform_id |-> "linux-x64", yosys_file_ext |-> "tgz",
                                     unarchive_cmd |-> <<"tar", "zxf">>, executables |-> UnixExecutables]
          [] p = "linux-aarch64" -> [yosys_platform_id |-> "linux-arm64", yosys_file_ext |-> "tgz",
                                     unarchive_cmd |-> <<"tar", "zxf">>, executables |-> UnixExecutables]
          [] p = "windows-amd64" -> [yosys_platform_id |-> "windows-x64", yosys_file_ext |-> "exe",
                                     unarchive_cmd |-> <<"7z", "x">>, executables |-> WindowsExecutables]]

PlatformIds == DOMAIN PLATFORMS

\* The registry keys in the order the model offers them: a tar platform without a
\* libusb assertion in build.py, the 7z platform, a platform with the assertion in
\* both scripts, then the remaining two.
IdPool == <<"linux-x86-64", "windows-amd64", "darwin-arm64", "darwin-x86-64", "linux-aarch64">>

InvokedIds == {IdPool[i] : i \in 1..(IF NumIds < Len(IdPool) THEN NumIds ELSE Len(IdPool))}

\* A platform id the registry does not hold.
UnknownIds == {"freebsd-x86-64"}

\* The shared library a packager asserts after the executables ("" when it asserts none).
LibusbPath(v, p) ==
    IF p \in {"darwin-arm64", "darwin-x86-64"} THEN "lib/libusb-1.0.0.dylib"
    ELSE IF v = "zip" THEN ""
    ELSE IF p \in {"linux-x86-64", "linux-aarch64"} THEN "lib/libusb-1.0.so.0"
    ELSE "lib/libusb-1.0.dll"

PackageExt(v) == IF v = "zip" THEN ".zip" ELSE ".tar.gz"

\* "".join(parts) of the target package file name.
PackageFilename(v, p, t) == "apio-oss-cad-suite" \o "-" \o p \o "-" \o t \o PackageExt(v)

\* The name of the upstream archive.
YosysFname(p) ==
    "oss-cad-suite" \o "-" \o PLATFORMS[p].yosys_platform_id \o "-" \o YOSYS_FILE_TAG
        \o "." \o PLATFORMS[p].yosys_file_ext

YosysUrl(p) ==
    "https://github.com/YosysHQ/oss-cad-suite-build/releases/download" \o "/"
        \o YOSYS_RELEASE_TAG \o "/" \o YosysFname(p)

-----------------------------------------------------------------------------
(* Directory trees *)

Range(s) == {s[i] : i \in 1..Len(s)}

LibPaths == {"lib/libusb-1.0.0.dylib", "lib/libusb-1.0.so.0", "lib/libusb-1.0.dll"}

Paths == Range(UnixExecutables) \cup Range(WindowsExecutables) \cup LibPaths
             \cup {"VERSION", "YOSYS-VERSION"}

\* What a path resolves to: nothing, a regular file without or with an executable
\* bit, or a directory (searchable, so os.access(X_OK) holds of it).
Kinds == {"none", "file", "xfile", "dir"}

EmptyTree == [x \in Paths |-> "none"]

\* any(dir.iterdir())
AnyEntry(tree) == \E x \in Paths : tree[x] # "none"

\* Path.is_file()
IsFile(tree, x) == tree[x] \in {"file", "xfile"}

\* os.access(path, os.X_OK)
AccessX(tree, x) == tree[x] \in {"xfile", "dir"}

\* A directory holds an entry: a tree entry or the metadata file.
DirNonEmpty(tree, meta) == AnyEntry(tree) \/ meta.present

\* run(["rsync", "-aq", f"{yosys_dir}/", f"{package_dir}/"]): every entry of the
\* source replaces the entry of the same path; nothing is deleted.
Rsync(src, dest) == [x \in Paths |-> IF src[x] # "none" THEN src[x] ELSE dest[x]]

\* Path.rename on POSIX: the source must exist, a file does not replace a directory
\* nor a directory a file.
RenameOk(tree, from, to) ==
    /\ tree[from] # "none"
    /\ ~(tree[from] \in {"file", "xfile"} /\ tree[to] = "dir")
    /\ ~(tree[from] = "dir" /\ tree[to] \in {"file", "xfile"})

Rename(tree, from, to) == [tree EXCEPT ![to] = tree[from], ![from] = "none"]

PackResult(ok, dest, failedAt, path) ==
    [ok |-> ok, dest |-> dest, failedAt |-> failedAt, path |-> path]

\* Outcomes of the rsync subprocess: it succeeds, or exits non-zero having copied
\* nothing or everything.
RsyncOutcomes == {"ok", "fail_none", "fail_copied"}

\* Mutant: the copy without the rename of VERSION.
rsync_without_rename(srcExists, src, destExists, dest, destMeta, o) ==
    IF ~srcExists THEN PackResult(FALSE, dest, "yosys_dir_missing", "")
    ELSE IF ~AnyEntry(src) THEN PackResult(FALSE, dest, "yosys_dir_empty", "")
    ELSE IF ~destExists THEN PackResult(FALSE, dest, "package_dir_missing", "")
    ELSE IF DirNonEmpty(dest, destMeta) THEN PackResult(FALSE, dest, "package_dir_not_empty", "")
    ELSE IF o = "fail_none" THEN PackResult(FALSE, dest, "rsync", "")
    ELSE IF o = "fail_copied" THEN PackResult(FALSE, Rsync(src, dest), "rsync", "")
    ELSE PackResult(TRUE, Rsync(src, dest), "", "")

\* Mutant: the function without the assertion that package_dir is empty.
rsync_unchecked_dest(srcExists, src, destExists, dest, destMeta, o) ==
    IF ~srcExists THEN PackResult(FALSE, dest, "yosys_dir_missing", "")
    ELSE IF ~AnyEntry(src) THEN PackResult(FALSE, dest, "yosys_dir_empty", "")
    ELSE IF ~destExists THEN PackResult(FALSE, dest, "package_dir_missing", "")
    ELSE IF o = "fail_none" THEN PackResult(FALSE, dest, "rsync", "")
    ELSE IF o = "fail_copied" THEN PackResult(FALSE, Rsync(src, dest), "rsync", "")
    ELSE IF ~RenameOk(Rsync(src, dest), "VERSION", "YOSYS-VERSION")
         THEN PackResult(FALSE, Rsync(src, dest), "rename", "VERSION")
    ELSE PackResult(TRUE, Rename(Rsync(src, dest), "VERSION", "YOSYS-VERSION"), "", "")

\* rsync_yosys_package(yosys_dir, package_dir).
rsync_yosys_package(srcExists, src, destExists, dest, destMeta, o) ==
    IF ~srcExists THEN PackResult(FALSE, dest, "yosys_dir_missing", "")
    ELSE IF ~AnyEntry(src) THEN PackResult(FALSE, dest, "yosys_dir_empty", "")
    ELSE IF ~destExists THEN PackResult(FALSE, dest, "package_dir_missing", "")
    ELSE IF DirNonEmpty(dest, destMeta) THEN PackResult(FALSE, dest, "package_dir_not_empty", "")
    ELSE IF o = "fail_none" THEN PackResult(FALSE, dest, "rsync", "")
    ELSE IF o = "fail_copied" THEN PackResult(FALSE, Rsync(src, dest), "rsync", "")
    ELSE IF ~RenameOk(Rsync(src, dest), "VERSION", "YOSYS-VERSION")
         THEN PackResult(FALSE, Rsync(src, dest), "rename", "VERSION")
    ELSE PackResult(TRUE, Rename(Rsync(src, dest), "VERSION", "YOSYS-VERSION"), "", "")

\* The loop of check_package_executables from position i: the position of the first
\* path that fails an assertion, 0 when the loop runs to its end.
RECURSIVE CheckFrom(_, _, _)
CheckFrom(tree, executables, i) ==
    IF i > Len(executables) THEN 0
    ELSE IF ~IsFile(tree, executables[i]) THEN i
    ELSE IF ~AccessX(tree, executables[i]) THEN i
    ELSE CheckFrom(tree, executables, i + 1)

\* Mutant: the loop without the is_file assertion.
RECURSIVE AccessFrom(_, _, _)
AccessFrom(tree, executables, i) ==
    IF i > Len(executables) THEN 0
    ELSE IF ~AccessX(tree, executables[i]) THEN i
    ELSE AccessFrom(tree, executables, i + 1)

check_access_only(tree, executables) == AccessFrom(tree, executables, 1)

check_package_executables(tree, executables) == CheckFrom(tree, executables, 1)

\* The packager function of platform p in script v: copy, check the executables,
\* then (where the function asserts it) the libusb backend.
packager_function(v, p, srcExists, src, destExists, dest, destMeta, o) ==
    LET r == rsync_yosys_package(srcExists, src, destExists, dest, destMeta, o)
        bad == check_package_executables(r.dest, PLATFORMS[p].executables)
    IN  IF ~r.ok THEN r
        ELSE IF bad # 0
             THEN PackResult(FALSE, r.dest, "check_executables", PLATFORMS[p].executables[bad])
        ELSE IF LibusbPath(v, p) # "" /\ ~IsFile(r.dest, LibusbPath(v, p))
             THEN PackResult(FALSE, r.dest, "libusb", "")
        ELSE r

-----------------------------------------------------------------------------
(* Build metadata.  A metadata file is a sequence of <<key, value>> entries: the *)
(* items of the JSON object in insertion order, or the lines of the text file.   *)

NoMeta == [present |-> FALSE, entries |-> <<>>]

HasKey(entries, k) == \E i \in 1..Len(entries) : entries[i][1] = k

\* json_data[k] = v on a Python dict: replace the value in place, or add the key last.
SetKey(entries, k, v) ==
    IF HasKey(entries, k)
    THEN [i \in 1..Len(entries) |-> IF entries[i][1] = k THEN <<k, v>> ELSE entries[i]]
    ELSE Append(entries, <<k, v>>)

\* Mutant: the file name is not added.
JsonBuildInfoNoFileName(input, p, t) ==
    SetKey(SetKey(input, "target-platform", p), "yosys-tag", YOSYS_RELEASE_TAG)

\* workflows/build.py: the three fields added to the loaded JSON object.
JsonBuildInfo(input, p, t) ==
    SetKey(SetKey(SetKey(input, "target-platform", p), "yosys-tag", YOSYS_RELEASE_TAG),
           "file-name", PackageFilename("targz", p, t))

\* build.py: the copy of the input with two lines appended.
TextBuildInfo(input, p) ==
    input \o << <<"platform-id", p>>, <<"yosys-tag", YOSYS_RELEASE_TAG>> >>

BuildInfo(v, input, p, t) ==
    IF v = "targz" THEN JsonBuildInfo(input, p, t) ELSE TextBuildInfo(input, p)

\* The build-info input: its kind on disk, whether json.load yields an object,
\* and its entries.
InfoFixtures ==
    { [kind |-> "absent", json_ok |-> FALSE, entries |-> <<>>],
      [kind |-> "dir", json_ok |-> FALSE, entries |-> <<>>],
      [kind |-> "file", json_ok |-> FALSE, entries |-> << <<"commit", "abc123">> >>],
      [kind |-> "file", json_ok |-> TRUE,
       entries |-> << <<"target-platform", "other">>, <<"platform-id", "other">>,
                      <<"commit", "abc123">> >>] }

-----------------------------------------------------------------------------
(* The upstream release: what the archive of a platform holds *)

\* The libusb backend shipped for a platform.
UpstreamLib(p) == LibusbPath("targz", p)

\* Exactly the required executables and a VERSION file.
MinimalTree(p) ==
    [x \in Paths |-> IF x \in Range(PLATFORMS[p].executables) THEN "xfile"
                     ELSE IF x = "VERSION" THEN "file" ELSE "none"]

\* The same with the libusb backend.
FullTree(p) == [MinimalTree(p) EXCEPT ![UpstreamLib(p)] = "file"]

ContentFixtures == {"full", "minimal", "no_version", "plain_yosys"}

\* The releases the pipeline runs are checked against.
ReleaseFixtures == {"full", "minimal"}

Fixture(p, f) ==
    CASE f = "full" -> FullTree(p)
      [] f = "minimal" -> MinimalTree(p)
      [] f = "no_version" -> [FullTree(p) EXCEPT !["VERSION"] = "none"]
      [] f = "plain_yosys" -> [FullTree(p) EXCEPT ![PLATFORMS[p].executables[1]] = "file"]

-----------------------------------------------------------------------------
(* The files of _packages *)

OutNames == {PackageFilename(v, p, t) : v \in Variants, p \in PlatformIds, t \in Tags}

\* st: "none" (no such file), "ok" (a complete archive), "partial" (what a failed
\* tar left behind).
NoFile == [st |-> "none", tree |-> EmptyTree, meta |-> NoMeta]

-----------------------------------------------------------------------------
(* One invocation *)

\* The statements of main() that can fail, in program order.
StepOrder ==
    <<"lookup", "check_info", "mkdir_upstream", "mkdir_package", "download", "extract",
      "unlink", "package", "metadata", "archive", "rmtree", "final">>

StepIndex(step) == CHOOSE i \in 1..Len(StepOrder) : StepOrder[i] = step

\* Mutant: the packager is called before the archive is deleted.
NextStepPackageFirst(step) ==
    CASE step = "extract" -> "package"
      [] step = "package" -> "unlink"
      [] step = "unlink" -> "metadata"
      [] step = "final" -> "done"
      [] OTHER -> StepOrder[StepIndex(step) + 1]

\* Where control goes when a step returns normally.
NextStep(step) ==
    IF StepIndex(step) = Len(StepOrder) THEN "done" ELSE StepOrder[StepIndex(step) + 1]

Running(r) == pc[r] \notin {"idle", "done", "aborted"}

NoStatus == [exit |-> 0, failStep |-> "", at |-> "", path |-> "", env |-> FALSE]

\* What the scratch area of platform p holds (recorded when an invocation starts).
Scratch(p) ==
    IF p \in PlatformIds
    THEN [arch |-> arch[p], src |-> srcDir[p], pkg |-> DirNonEmpty(pkgTree[p], pkgMeta[p]),
          out |-> {n \in OutNames : outFile[n].st # "none"}]
    ELSE [arch |-> "none", src |-> FALSE, pkg |-> FALSE,
          out |-> {n \in OutNames : outFile[n].st # "none"}]

\* The step is attempted; reads says whether it reads the build-info input.
Attempt(r, step, reads) ==
    hist' = [hist EXCEPT ![r].attempts = Append(@, step),
                         ![r].infoReads = IF reads THEN Append(@, step) ELSE @]

\* The step returns normally.
Return(r, step) ==
    /\ pc' = [pc EXCEPT ![r] = NextStep(step)]
    /\ st' = st

\* Mutant: the failure is noted and main() goes on (run() without check=True).
RaiseAndGoOn(r, step, at, path, env) ==
    /\ pc' = [pc EXCEPT ![r] = NextStep(step)]
    /\ st' = [st EXCEPT ![r] = [exit |-> 0, failStep |-> step, at |-> at, path |-> path,
                                env |-> env]]

\* The step raises (an assertion, an OSError, CalledProcessError of run()) at the
\* statement named at; path is the path an assertion reports; env says the cause
\* lies outside the inputs and the scratch area (a subprocess or a system call
\* that failed on its own).
Raise(r, step, at, path, env) ==
    /\ pc' = [pc EXCEPT ![r] = "raising"]
    /\ st' = [st EXCEPT ![r] = [exit |-> 0, failStep |-> step, at |-> at, path |-> path,
                                env |-> env]]

\* upstream_dir = work_dir / "_upstream" / args.platform_id: the directories of
\* _upstream are named by platform id.
upstream_dir(r) == args[r].platform_id

\* Mutant: one package directory for every platform.
package_dir_shared(r) == IdPool[1]

\* package_dir = work_dir / "_packages" / args.platform_id
package_dir(r) == args[r].platform_id

\* Another invocation for platform id p is alive.
Overlaps(r, p) == \E o \in Procs \ {r} : Running(o) /\ args[o].platform_id = p

\* python build.py --platform_id P --package-tag T --build-info-... F
Invoke(r) ==
    /\ ~Running(r)
    /\ runs < MaxRuns
    /\ \E p \in InvokedIds \cup UnknownIds, t \in Tags :
          /\ args' = [args EXCEPT ![r] = [platform_id |-> p, package_tag |-> t]]
          /\ hist' = [q \in Procs |->
                        IF q = r
                        THEN [attempts |-> <<>>, infoReads |-> <<>>, start |-> Scratch(p),
                              undisturbed |-> ~Overlaps(r, p), overlapped |-> Overlaps(r, p)]
                        ELSE IF args[q].platform_id = p
                             THEN [hist[q] EXCEPT !.undisturbed = FALSE,
                                                  !.overlapped = @ \/ Running(q)]
                        ELSE hist[q]]
    /\ pc' = [pc EXCEPT ![r] = "lookup"]
    /\ st' = [st EXCEPT ![r] = NoStatus]
    /\ runs' = runs + 1
    /\ UNCHANGED <<envvars, fsvars>>

\* Mutant: a lookup that falls back to an entry instead of raising KeyError.
LookupWithDefault(r) ==
    /\ pc[r] = "lookup"
    /\ Attempt(r, "lookup", FALSE)
    /\ Return(r, "lookup")
    /\ UNCHANGED <<envvars, fsvars, args, runs>>

\* platform_info = PLATFORMS[args.platform_id]
Lookup(r) ==
    /\ pc[r] = "lookup"
    /\ Attempt(r, "lookup", FALSE)
    /\ IF args[r].platform_id \in DOMAIN PLATFORMS
       THEN Return(r, "lookup")
       ELSE Raise(r, "lookup", "KeyError", "", FALSE)
    /\ UNCHANGED <<envvars, fsvars, args, runs>>

\* Mutant: main() without the two assertions on the build-info path.
CheckInfoSkipped(r) ==
    /\ pc[r] = "check_info"
    /\ Attempt(r, "check_info", TRUE)
    /\ Return(r, "check_info")
    /\ UNCHANGED <<envvars, fsvars, args, runs>>

\* assert build_info_path.exists(); assert build_info_path.is_file()
CheckInfo(r) ==
    /\ pc[r] = "check_info"
    /\ Attempt(r, "check_info", TRUE)
    /\ IF info.kind = "file"
       THEN Return(r, "check_info")
       ELSE Raise(r, "check_info", "assert", "", FALSE)
    /\ UNCHANGED <<envvars, fsvars, args, runs>>

\* Mutant: mkdir without exist_ok, which raises FileExistsError on a directory
\* that is there.
MkdirUpstreamNew(r) ==
    /\ pc[r] = "mkdir_upstream"
    /\ Attempt(r, "mkdir_upstream", FALSE)
    /\ IF upDir[upstream_dir(r)]
       THEN /\ upDir' = upDir
            /\ Raise(r, "mkdir_upstream", "mkdir", "", FALSE)
       ELSE /\ upDir' = [upDir EXCEPT ![upstream_dir(r)] = TRUE]
            /\ Return(r, "mkdir_upstream")
    /\ UNCHANGED <<envvars, arch, archDup, srcDir, srcTree, pkgDir, pkgTree, pkgMeta, outFile,
                   args, runs>>

\* upstream_dir.mkdir(parents=True, exist_ok=True)
MkdirUpstream(r) ==
    /\ pc[r] = "mkdir_upstream"
    /\ Attempt(r, "mkdir_upstream", FALSE)
    /\ \E o \in {"ok", "fail"} :
          IF o = "ok"
          THEN /\ upDir' = [upDir EXCEPT ![upstream_dir(r)] = TRUE]
               /\ Return(r, "mkdir_upstream")
          ELSE /\ upDir' = upDir
               /\ Raise(r, "mkdir_upstream", "mkdir", "", TRUE)
    /\ UNCHANGED <<envvars, arch, archDup, srcDir, srcTree, pkgDir, pkgTree, pkgMeta, outFile,
                   args, runs>>

\* package_dir.mkdir(parents=True, exist_ok=True)
MkdirPackage(r) ==
    /\ pc[r] = "mkdir_package"
    /\ Attempt(r, "mkdir_package", FALSE)
    /\ \E o \in {"ok", "fail"} :
          IF o = "ok"
          THEN /\ pkgDir' = [pkgDir EXCEPT ![package_dir(r)] = TRUE]
               /\ Return(r, "mkdir_package")
          ELSE /\ pkgDir' = pkgDir
               /\ Raise(r, "mkdir_package", "mkdir", "", TRUE)
    /\ UNCHANGED <<envvars, upDir, arch, archDup, srcDir, srcTree, pkgTree, pkgMeta, outFile,
                   args, runs>>

\* run(["wget", "-nv", yosys_url]) in upstream_dir: wget never overwrites, a name
\* already taken makes it write <name>.1; a failed transfer leaves nothing or a
\* truncated file.  The pair is <<arch, archDup>> afterwards.
Wget(a, dup, o) ==
    IF o = "fail_clean" THEN <<a, dup>>
    ELSE IF a # "none" THEN <<a, TRUE>>
    ELSE IF o = "fail_partial" THEN <<"partial", dup>>
    ELSE <<"full", dup>>

\* os.chdir(upstream_dir); run(["wget", "-nv", yosys_url]); run(["ls", "-al"])
Download(r) ==
    LET p == args[r].platform_id
    IN  /\ pc[r] = "download"
        /\ Attempt(r, "download", FALSE)
        /\ \E o \in {"ok", "fail_clean", "fail_partial", "ls_fail"} :
              /\ arch' = [arch EXCEPT ![upstream_dir(r)] = Wget(arch[upstream_dir(r)], archDup[upstream_dir(r)], o)[1]]
              /\ archDup' = [archDup EXCEPT ![upstream_dir(r)] = Wget(arch[upstream_dir(r)], archDup[upstream_dir(r)], o)[2]]
              /\ IF o = "ok"
                 THEN Return(r, "download")
                 ELSE Raise(r, "download", IF o = "ls_fail" THEN "ls" ELSE "wget", "", TRUE)
        /\ UNCHANGED <<envvars, upDir, srcDir, srcTree, pkgDir, pkgTree, pkgMeta, outFile,
                       args, runs>>

\* 7z x asks before it replaces a file that exists; tar zxf replaces it.
AsksToReplace(r) ==
    /\ PLATFORMS[args[r].platform_id].unarchive_cmd = <<"7z", "x">>
    /\ srcDir[upstream_dir(r)]
    /\ \E x \in Paths : /\ IsFile(srcTree[upstream_dir(r)], x)
                        /\ content[args[r].platform_id][x] # "none"

\* The subprocess succeeds, fails on its own, or the ls after it fails; where 7z
\* asks, the answer may be to quit.
ExtractOutcomes(r) == {"ok", "fail", "ls_fail"} \cup (IF AsksToReplace(r) THEN {"quit"} ELSE {})

\* run(platform_info.unarchive_cmd + [yosys_fname]); run(["ls", "-al"])
Extract(r) ==
    LET p == args[r].platform_id
    IN  /\ pc[r] = "extract"
        /\ Attempt(r, "extract", FALSE)
        /\ \E o \in ExtractOutcomes(r) :
              IF arch[upstream_dir(r)] # "full"
              THEN /\ UNCHANGED <<srcDir, srcTree>>
                   /\ Raise(r, "extract", "unarchive", "", FALSE)
              ELSE IF o \in {"fail", "quit"}
              THEN /\ UNCHANGED <<srcDir, srcTree>>
                   /\ Raise(r, "extract", "unarchive", "", o = "fail")
              ELSE /\ srcDir' = [srcDir EXCEPT ![upstream_dir(r)] = TRUE]
                   /\ srcTree' = [srcTree EXCEPT ![upstream_dir(r)] = Rsync(content[p], @)]
                   /\ IF o = "ok"
                      THEN Return(r, "extract")
                      ELSE Raise(r, "extract", "ls", "", TRUE)
        /\ UNCHANGED <<envvars, upDir, arch, archDup, pkgDir, pkgTree, pkgMeta, outFile,
                       args, runs>>

\* Path(yosys_fname).unlink(); run(["ls", "-al"])
Unlink(r) ==
    LET p == args[r].platform_id
    IN  /\ pc[r] = "unlink"
        /\ Attempt(r, "unlink", FALSE)
        /\ \E o \in {"ok", "fail", "ls_fail"} :
              IF arch[upstream_dir(r)] = "none"
              THEN /\ arch' = arch
                   /\ Raise(r, "unlink", "unlink", "", FALSE)
              ELSE IF o = "fail"
              THEN /\ arch' = arch
                   /\ Raise(r, "unlink", "unlink", "", TRUE)
              ELSE /\ arch' = [arch EXCEPT ![upstream_dir(r)] = "none"]
                   /\ IF o = "ok"
                      THEN Return(r, "unlink")
                      ELSE Raise(r, "unlink", "ls", "", TRUE)
        /\ UNCHANGED <<envvars, upDir, archDup, srcDir, srcTree, pkgDir, pkgTree, pkgMeta,
                       outFile, args, runs>>

\* platform_info.packager_function(upstream_dir / "oss-cad-suite", package_dir)
Package(r) ==
    LET p == args[r].platform_id
    IN  /\ pc[r] = "package"
        /\ Attempt(r, "package", FALSE)
        /\ \E o \in RsyncOutcomes :
              LET res == packager_function(variant, p, srcDir[upstream_dir(r)], srcTree[upstream_dir(r)], pkgDir[package_dir(r)],
                                           pkgTree[package_dir(r)], pkgMeta[package_dir(r)], o)
              IN  /\ pkgTree' = [pkgTree EXCEPT ![package_dir(r)] = res.dest]
                  /\ IF res.ok
                     THEN Return(r, "package")
                     ELSE Raise(r, "package", res.failedAt, res.path, res.failedAt = "rsync")
        /\ UNCHANGED <<envvars, upDir, arch, archDup, srcDir, srcTree, pkgDir, pkgMeta, outFile,
                       args, runs>>

\* The subprocesses of the metadata step: cp (build.py only), then ls, cat and
\* json-align.
MetadataOutcomes(v) == IF v = "zip" THEN {"ok", "cp_fail", "tool_fail"} ELSE {"ok", "tool_fail"}

\* workflows/build.py: json.load, three assignments, json.dump, ls, cat, json-align.
\* build.py: cp of the input to BUILD-INFO, two appended lines, ls, cat.
Metadata(r) ==
    LET p == args[r].platform_id
        written == [present |-> TRUE,
                    entries |-> BuildInfo(variant, info.entries, p, args[r].package_tag)]
    IN  /\ pc[r] = "metadata"
        /\ Attempt(r, "metadata", TRUE)
        /\ \E o \in MetadataOutcomes(variant) :
              IF variant = "targz" /\ ~info.json_ok
              THEN /\ pkgMeta' = pkgMeta
                   /\ Raise(r, "metadata", "json_load", "", FALSE)
              ELSE IF ~pkgDir[package_dir(r)]
              THEN /\ pkgMeta' = pkgMeta
                   /\ Raise(r, "metadata", "write", "", FALSE)
              ELSE IF o = "cp_fail"
              THEN /\ pkgMeta' = pkgMeta
                   /\ Raise(r, "metadata", "cp", "", TRUE)
              ELSE /\ pkgMeta' = [pkgMeta EXCEPT ![package_dir(r)] = written]
                   /\ IF o = "ok"
                      THEN Return(r, "metadata")
                      ELSE Raise(r, "metadata", "run", "", TRUE)
        /\ UNCHANGED <<envvars, upDir, arch, archDup, srcDir, srcTree, pkgDir, pkgTree, outFile,
                       args, runs>>

\* What "tar zcf ../name ./*" or "zip -qr ../name *" leaves at name: tar writes the
\* archive anew, zip adds to and replaces in the archive that is there.
Archived(v, old, tree, meta) ==
    IF v = "zip" /\ old.st = "ok"
    THEN [st |-> "ok", tree |-> Rsync(tree, old.tree), meta |-> IF meta.present THEN meta ELSE old.meta]
    ELSE [st |-> "ok", tree |-> tree, meta |-> meta]

\* What a failed archiver leaves at name: tar a file it began to write, zip (which
\* writes a temporary file) what was there.
ArchiveFailed(v, old) ==
    IF v = "zip" THEN old ELSE [st |-> "partial", tree |-> EmptyTree, meta |-> NoMeta]

\* os.chdir(package_dir); the archiver in a shell
Archive(r) ==
    LET p == args[r].platform_id
        name == PackageFilename(variant, p, args[r].package_tag)
    IN  /\ pc[r] = "archive"
        /\ Attempt(r, "archive", FALSE)
        /\ \E o \in {"ok", "fail"} :
              IF ~pkgDir[package_dir(r)]
              THEN /\ outFile' = outFile
                   /\ Raise(r, "archive", "chdir", "", FALSE)
              ELSE IF ~DirNonEmpty(pkgTree[package_dir(r)], pkgMeta[package_dir(r)])
              THEN /\ outFile' = [outFile EXCEPT ![name] = ArchiveFailed(variant, @)]
                   /\ Raise(r, "archive", "glob", "", FALSE)
              ELSE IF o = "fail"
              THEN /\ outFile' = [outFile EXCEPT ![name] = ArchiveFailed(variant, @)]
                   /\ Raise(r, "archive", "run", "", TRUE)
              ELSE /\ outFile' = [outFile EXCEPT ![name] = Archived(variant, @, pkgTree[package_dir(r)], pkgMeta[package_dir(r)])]
                   /\ Return(r, "archive")
        /\ UNCHANGED <<envvars, upDir, arch, archDup, srcDir, srcTree, pkgDir, pkgTree, pkgMeta,
                       args, runs>>

\* Mutant: the package directory is left in place.
RmtreeSkipped(r) ==
    /\ pc[r] = "rmtree"
    /\ Attempt(r, "rmtree", FALSE)
    /\ Return(r, "rmtree")
    /\ UNCHANGED <<envvars, fsvars, args, runs>>

\* shutil.rmtree(package_dir)
Rmtree(r) ==
    LET p == args[r].platform_id
    IN  /\ pc[r] = "rmtree"
        /\ Attempt(r, "rmtree", FALSE)
        /\ \E o \in {"ok", "fail"} :
              IF ~pkgDir[package_dir(r)]
              THEN /\ UNCHANGED <<pkgDir, pkgTree, pkgMeta>>
                   /\ Raise(r, "rmtree", "rmtree", "", FALSE)
              ELSE IF o = "fail"
              THEN /\ UNCHANGED <<pkgDir, pkgTree, pkgMeta>>
                   /\ Raise(r, "rmtree", "rmtree", "", TRUE)
              ELSE /\ pkgDir' = [pkgDir EXCEPT ![package_dir(r)] = FALSE]
                   /\ pkgTree' = [pkgTree EXCEPT ![package_dir(r)] = EmptyTree]
                   /\ pkgMeta' = [pkgMeta EXCEPT ![package_dir(r)] = NoMeta]
                   /\ Return(r, "rmtree")
        /\ UNCHANGED <<envvars, upDir, arch, archDup, srcDir, srcTree, outFile, args, runs>>

\* os.chdir(work_dir); two ls; assert (Path("_packages") / package_filename).is_file();
\* main() returns and the interpreter exits with status 0.
Final(r) ==
    LET name == PackageFilename(variant, args[r].platform_id, args[r].package_tag)
    IN  /\ pc[r] = "final"
        /\ Attempt(r, "final", FALSE)
        /\ \E o \in {"ok", "ls_fail"} :
              IF o = "ls_fail"
              THEN Raise(r, "final", "ls", "", TRUE)
              ELSE IF outFile[name].st = "none"
              THEN Raise(r, "final", "assert", name, FALSE)
              ELSE /\ pc' = [pc EXCEPT ![r] = NextStep("final")]
                   /\ st' = [st EXCEPT ![r].exit = 0]
        /\ UNCHANGED <<envvars, fsvars, args, runs>>

\* Mutant: a handler that removes the package directory before the exit.
ExitWithCleanup(r) ==
    /\ pc[r] = "raising"
    /\ pc' = [pc EXCEPT ![r] = "aborted"]
    /\ st' = [st EXCEPT ![r].exit = 1]
    /\ IF args[r].platform_id \in PlatformIds
       THEN /\ pkgDir' = [pkgDir EXCEPT ![package_dir(r)] = FALSE]
            /\ pkgTree' = [pkgTree EXCEPT ![package_dir(r)] = EmptyTree]
            /\ pkgMeta' = [pkgMeta EXCEPT ![package_dir(r)] = NoMeta]
       ELSE UNCHANGED <<pkgDir, pkgTree, pkgMeta>>
    /\ UNCHANGED <<envvars, upDir, arch, archDup, srcDir, srcTree, outFile, args, hist, runs>>

\* No handler catches the exception: the interpreter prints the traceback and exits
\* with status 1.
Exit(r) ==
    /\ pc[r] = "raising"
    /\ pc' = [pc EXCEPT ![r] = "aborted"]
    /\ st' = [st EXCEPT ![r].exit = 1]
    /\ UNCHANGED <<envvars, fsvars, args, hist, runs>>

-----------------------------------------------------------------------------
(* Specifications *)

NoHistory ==
    [attempts |-> <<>>, infoReads |-> <<>>, undisturbed |-> TRUE, overlapped |-> FALSE,
     start |-> [arch |-> "none", src |-> FALSE, pkg |-> FALSE, out |-> {}]]

\* A clean working directory; the script, the release and the build-info input
\* are the environment of the behaviour.
Init ==
    /\ variant \in Variants
    /\ \E f \in ReleaseFixtures : content = [p \in PlatformIds |-> Fixture(p, f)]
    /\ info \in InfoFixtures
    /\ upDir = [p \in PlatformIds |-> FALSE]
    /\ arch = [p \in PlatformIds |-> "none"]
    /\ archDup = [p \in PlatformIds |-> FALSE]
    /\ srcDir = [p \in PlatformIds |-> FALSE]
    /\ srcTree = [p \in PlatformIds |-> EmptyTree]
    /\ pkgDir = [p \in PlatformIds |-> FALSE]
    /\ pkgTree = [p \in PlatformIds |-> EmptyTree]
    /\ pkgMeta = [p \in PlatformIds |-> NoMeta]
    /\ outFile = [n \in OutNames |-> NoFile]
    /\ pc = [r \in Procs |-> "idle"]
    /\ args = [r \in Procs |-> [platform_id |-> "", package_tag |-> ""]]
    /\ st = [r \in Procs |-> NoStatus]
    /\ hist = [r \in Procs |-> NoHistory]
    /\ runs = 0

Step(r) ==
    \/ Lookup(r)
    \/ CheckInfo(r)
    \/ MkdirUpstream(r)
    \/ MkdirPackage(r)
    \/ Download(r)
    \/ Extract(r)
    \/ Unlink(r)
    \/ Package(r)
    \/ Metadata(r)
    \/ Archive(r)
    \/ Rmtree(r)
    \/ Final(r)
    \/ Exit(r)

\* Invocations one after the other: process r1, invoked again when it has exited.
Next == Invoke("r1") \/ Step("r1")

Spec == Init /\ [][Next]_vars

\* Invocations that may overlap, of a script, a release and a build-info input
\* with which an invocation on its own succeeds.
InitConc ==
    /\ Init
    /\ content = [p \in PlatformIds |-> Fixture(p, "full")]
    /\ info.kind = "file" /\ info.json_ok

NextConc == \E r \in Procs : Invoke(r) \/ Step(r)

SpecConc == InitConc /\ [][NextConc]_vars

-----------------------------------------------------------------------------
(* The packager function on its own: an invocation that has downloaded, extracted *)
(* and deleted the archive stands before the packaging step, with any of a set of *)
(* extracted trees and an empty or a left-over package directory.                 *)

\* The paths a packager of platform p looks at.
PackagerPaths(p) ==
    Range(PLATFORMS[p].executables) \cup {"VERSION", "YOSYS-VERSION", UpstreamLib(p)}

\* The empty tree, and the full tree of the platform with up to two entries changed.
PackTrees(p) ==
    {EmptyTree} \cup
    {[FullTree(p) EXCEPT ![x] = k, ![y] = l] :
        x \in PackagerPaths(p), y \in PackagerPaths(p), k \in Kinds, l \in Kinds}

\* What an earlier invocation may have left in the package directory.
LeftOver == [EmptyTree EXCEPT !["YOSYS-VERSION"] = "file"]

InitPack ==
    /\ variant \in Variants
    /\ info = [kind |-> "file", json_ok |-> TRUE, entries |-> << <<"commit", "abc123">> >>]
    /\ \E p \in PlatformIds : \E tree \in PackTrees(p), dest \in {EmptyTree, LeftOver} :
          /\ content = [q \in PlatformIds |-> IF q = p THEN tree ELSE FullTree(q)]
          /\ upDir = [q \in PlatformIds |-> q = p]
          /\ srcDir = [q \in PlatformIds |-> q = p]
          /\ srcTree = [q \in PlatformIds |-> IF q = p THEN tree ELSE EmptyTree]
          /\ pkgDir = [q \in PlatformIds |-> q = p]
          /\ pkgTree = [q \in PlatformIds |-> IF q = p THEN dest ELSE EmptyTree]
          /\ args = [r \in Procs |-> IF r = "r1"
                                     THEN [platform_id |-> p, package_tag |-> TagPool[1]]
                                     ELSE [platform_id |-> "", package_tag |-> ""]]
          /\ hist = [r \in Procs |->
                       IF r = "r1"
                       THEN [NoHistory EXCEPT
                               !.attempts = SubSeq(StepOrder, 1, StepIndex("unlink")),
                               !.infoReads = <<"check_info">>,
                               !.start = [arch |-> "none", src |-> FALSE,
                                          pkg |-> dest # EmptyTree, out |-> {}]]
                       ELSE NoHistory]
    /\ arch = [p \in PlatformIds |-> "none"]
    /\ archDup = [p \in PlatformIds |-> FALSE]
    /\ pkgMeta = [p \in PlatformIds |-> NoMeta]
    /\ outFile = [n \in OutNames |-> NoFile]
    /\ pc = [r \in Procs |-> IF r = "r1" THEN "package" ELSE "idle"]
    /\ st = [r \in Procs |-> NoStatus]
    /\ runs = 1

NextPack == Package("r1")

SpecPack == InitPack /\ [][NextPack]_vars

-----------------------------------------------------------------------------
(* Claims *)

\* The process that runs the packager in SpecPack, and its platform.
PackProc == "r1"
PackId == args[PackProc].platform_id

\* The packaging step has run (it returned or raised).
Packaged == pc[PackProc] \in {"metadata", "raising"}

\* A path passes the two assertions of the loop.
Executable(tree, x) == tree[x] = "xfile"

\* C5: the executable check passes only if every listed path is a regular file with
\* the executable bit set in dest_dir; when it fails, the path it reports is the
\* first path of the list, in list order, that is missing or not executable.
C5_ExecutableValidation ==
    Packaged =>
        LET list == PLATFORMS[PackId].executables
            dest == pkgTree[PackId]
            passed == pc[PackProc] = "metadata" \/ st[PackProc].at = "libusb"
        IN  /\ passed => \A i \in 1..Len(list) : Executable(dest, list[i])
            /\ st[PackProc].at = "check_executables" =>
                  \E i \in 1..Len(list) :
                     /\ st[PackProc].path = list[i]
                     /\ ~Executable(dest, list[i])
                     /\ \A j \in 1..(i - 1) : Executable(dest, list[j])
            /\ st[PackProc].at # "check_executables" => st[PackProc].path \notin Range(list)

\* C5 witness: the check failed on a path that is not the only bad one: an earlier
\* path of the list is good and a later one is bad too.
C5_Witness ==
    /\ Packaged
    /\ st[PackProc].at = "check_executables"
    /\ \E i, j \in 1..Len(PLATFORMS[PackId].executables) :
          /\ 1 < i /\ i < j
          /\ st[PackProc].path = PLATFORMS[PackId].executables[i]
          /\ ~Executable(pkgTree[PackId], PLATFORMS[PackId].executables[j])

\* The packager's postcondition on dest_dir: every required binary, the version
\* marker under its new name, no file named VERSION.
PackagedTree(p, dest) ==
    /\ \A x \in Range(PLATFORMS[p].executables) : dest[x] = "xfile"
    /\ dest["YOSYS-VERSION"] = "file"
    /\ dest["VERSION"] = "none"

\* The packager was called with an empty dest_dir and its rsync subprocess worked.
PackagedFromEmpty == Packaged /\ ~hist[PackProc].start.pkg /\ st[PackProc].at # "rsync"

\* C6 as claimed: on exactly the required binaries and a VERSION file, with dest_dir
\* empty, the packaging routine of every platform succeeds and leaves the binaries
\* and YOSYS-VERSION (and no VERSION) in dest_dir.
C6_AsClaimed ==
    PackagedFromEmpty /\ srcTree[PackId] = MinimalTree(PackId) =>
        pc[PackProc] = "metadata" /\ PackagedTree(PackId, pkgTree[PackId])

\* The minimal fixture of a packager: the required binaries, VERSION and, where the
\* packager asserts it, the libusb backend.
RequiredTree(v, p) ==
    IF LibusbPath(v, p) = "" THEN MinimalTree(p)
    ELSE [MinimalTree(p) EXCEPT ![LibusbPath(v, p)] = "file"]

\* C6 amended: on the required binaries, a VERSION file and the libusb backend where
\* the packager asserts one (every platform in workflows/build.py, the darwin ones
\* in build.py), the routine succeeds with that postcondition; without the backend
\* such a packager copies and renames, then fails at the libusb assertion.
C6_PackagingMinimalFixture ==
    PackagedFromEmpty =>
        /\ srcTree[PackId] = RequiredTree(variant, PackId) =>
              pc[PackProc] = "metadata" /\ PackagedTree(PackId, pkgTree[PackId])
        /\ srcTree[PackId] = MinimalTree(PackId) /\ LibusbPath(variant, PackId) # "" =>
              /\ pc[PackProc] = "raising" /\ st[PackProc].at = "libusb"
              /\ PackagedTree(PackId, pkgTree[PackId])

\* C6 witness: a packager that asserts the backend has succeeded on its fixture.
C6_Witness ==
    /\ PackagedFromEmpty
    /\ pc[PackProc] = "metadata"
    /\ LibusbPath(variant, PackId) # ""
    /\ srcTree[PackId] = RequiredTree(variant, PackId)
    /\ PackagedTree(PackId, pkgTree[PackId])

-----------------------------------------------------------------------------
(* Claims about the pipeline *)

IsPrefix(s, t) == Len(s) <= Len(t) /\ s = SubSeq(t, 1, Len(s))

Exited(r) == pc[r] \in {"done", "aborted"}

\* The steps of the pipeline run, as the claims list them.
PipelineSteps ==
    <<"lookup", "check_info", "mkdir_upstream", "mkdir_package", "download", "extract",
      "unlink", "package", "metadata", "archive", "rmtree", "final">>

\* Position of a step in that list (0 for none).
StepNo(step) ==
    IF step \in Range(PipelineSteps)
    THEN CHOOSE i \in 1..Len(PipelineSteps) : PipelineSteps[i] = step
    ELSE 0

\* C1: fail-fast.  When a step of main() fails, the steps attempted are exactly the
\* steps up to it, each once (no later step, no retry), the process ends with a
\* non-zero status, and status zero is reached only through the final check.
C1_FailFast ==
    \A r \in Procs :
        /\ st[r].failStep # "" =>
              /\ pc[r] \in {"raising", "aborted"}
              /\ hist[r].attempts = SubSeq(PipelineSteps, 1, StepNo(st[r].failStep))
        /\ pc[r] = "aborted" => st[r].failStep # "" /\ st[r].exit # 0
        /\ pc[r] = "done" =>
              st[r].failStep = "" /\ st[r].exit = 0 /\ hist[r].attempts = PipelineSteps

\* C1 witness: an invocation has ended with a non-zero status in the middle of the
\* pipeline, at the extraction.
C1_Witness ==
    \E r \in Procs :
        pc[r] = "aborted" /\ st[r].failStep = "extract" /\ st[r].exit = 1

\* The name of the package file of invocation r.
OutName(r) == PackageFilename(variant, args[r].platform_id, args[r].package_tag)

\* The files of _packages.
OutFiles == {n \in OutNames : outFile[n].st # "none"}

\* C2: when an invocation for platform P and tag T ends with status zero, the file
\* _packages/apio-oss-cad-suite-P-T<ext> exists, it is the only file the invocation
\* has added to _packages, and _packages/P/ does not exist.
C2_SuccessPostcondition ==
    \A r \in Procs :
        pc[r] = "done" /\ st[r].exit = 0 =>
            /\ outFile[OutName(r)].st # "none"
            /\ OutFiles = hist[r].start.out \cup {OutName(r)}
            /\ ~pkgDir[args[r].platform_id]
            /\ ~DirNonEmpty(pkgTree[args[r].platform_id], pkgMeta[args[r].platform_id])

\* C2 witness: a successful invocation that found the package file of another
\* platform in _packages and added its own.
C2_Witness ==
    \E r \in Procs :
        /\ pc[r] = "done" /\ st[r].exit = 0
        /\ hist[r].start.out # {}
        /\ OutName(r) \notin hist[r].start.out
        /\ OutName(r) \in OutFiles

\* An invocation with an unknown platform id is at the lookup or has failed there.
C4_UnknownState ==
    \A r \in Procs :
        args[r].platform_id \in UnknownIds =>
            /\ pc[r] \in {"lookup", "raising", "aborted"}
            /\ IsPrefix(hist[r].attempts, <<"lookup">>)
            /\ pc[r] # "lookup" => st[r].failStep = "lookup"
            /\ pc[r] = "aborted" => st[r].exit # 0

\* No step of such an invocation changes the file system.
C4_UnknownStep ==
    \A r \in Procs :
        args'[r].platform_id \in UnknownIds /\ pc'[r] \in {"lookup", "raising", "aborted"}
            /\ pc'[r] # pc[r]
        => fsvars' = fsvars

\* C4: an invocation with a platform id that is no key of the registry fails at
\* the lookup, reaches no later step (no directory creation, no download), and no
\* step taken while it is alive changes the file system.
C4_UnknownPlatform == []C4_UnknownState /\ [][C4_UnknownStep]_vars

\* C4 witness: an invocation with an unknown platform id has aborted in a working
\* directory that an earlier invocation had filled.
C4_Witness ==
    \E r \in Procs :
        /\ pc[r] = "aborted" /\ args[r].platform_id \in UnknownIds
        /\ OutFiles # {}
        /\ \E p \in PlatformIds : upDir[p] /\ srcDir[p]

\* The side-effecting steps in the order the claim gives.
ClaimedOrder ==
    <<"download", "extract", "unlink", "package", "metadata", "archive", "rmtree", "final">>

\* The side-effecting steps an invocation has attempted, in the order it did.
SideEffects(r) == SelectSeq(hist[r].attempts, LAMBDA x : x \in Range(ClaimedOrder))

\* The side-effecting steps occur in the claimed order, each at most once and each
\* after the earlier ones returned; the archive is gone when the packager starts.
StepsInOrder(r) ==
    /\ IsPrefix(SideEffects(r), ClaimedOrder)
    /\ pc[r] \in Range(ClaimedOrder) =>
          SideEffects(r) = SubSeq(ClaimedOrder, 1, StepNo(pc[r]) - StepNo("download"))
    /\ "package" \in Range(hist[r].attempts) => arch[args[r].platform_id] = "none"
    /\ "package" \notin Range(hist[r].attempts) /\ ~hist[r].start.pkg /\ Running(r) =>
          ~DirNonEmpty(pkgTree[args[r].platform_id], pkgMeta[args[r].platform_id])

\* C3 as claimed: the steps occur in the fixed order, and the metadata input is first
\* consulted at the metadata step.
C3_AsClaimed ==
    \A r \in Procs :
        args[r].platform_id \in PlatformIds =>
            /\ StepsInOrder(r)
            /\ hist[r].infoReads # <<>> => hist[r].infoReads[1] = "metadata"

\* C3 amended: the steps occur in the fixed order, the archive is deleted before the
\* packager starts; the metadata input is first consulted (its existence asserted)
\* right after the platform lookup, before any directory is created and before the
\* download, and is read at the metadata step.
C3_StepOrdering ==
    \A r \in Procs :
        args[r].platform_id \in PlatformIds =>
            /\ StepsInOrder(r)
            /\ IsPrefix(hist[r].infoReads, <<"check_info", "metadata">>)
            /\ hist[r].infoReads = <<>> => IsPrefix(hist[r].attempts, <<"lookup">>)
            /\ ("metadata" \in Range(hist[r].infoReads)) = ("metadata" \in Range(hist[r].attempts))

\* C3 witness: an invocation has gone through all the steps, having read the
\* metadata input at the check after the lookup and at the metadata step.
C3_Witness ==
    \E r \in Procs :
        /\ pc[r] = "done"
        /\ SideEffects(r) = ClaimedOrder
        /\ hist[r].infoReads = <<"check_info", "metadata">>

\* The value of key k in a metadata file.
Values(entries, k) == {entries[i][2] : i \in {j \in 1..Len(entries) : entries[j][1] = k}}

\* The keys of the computed fields in the two formats.
PlatformKey(v) == IF v = "targz" THEN "target-platform" ELSE "platform-id"
ComputedKeys(v) == {PlatformKey(v), "yosys-tag", "file-name"}

\* The metadata step of invocation r has returned and no later step has changed
\* the package directory.
MetadataWritten(r) == pc[r] = "archive"

\* The metadata holds every input entry and the three computed fields, each computed
\* key once with the computed value.
MergedAsClaimed(r) ==
    LET out == pkgMeta[args[r].platform_id].entries
    IN  /\ pkgMeta[args[r].platform_id].present
        /\ Values(out, PlatformKey(variant)) = {args[r].platform_id}
        /\ Values(out, "yosys-tag") = {YOSYS_RELEASE_TAG}
        /\ Values(out, "file-name") = {OutName(r)}
        /\ \A i \in 1..Len(info.entries) :
              info.entries[i][1] \notin ComputedKeys(variant) =>
                  info.entries[i] \in Range(out)

CleanRunSucceeds(v, p) ==
    /\ p \in PlatformIds
    /\ info.kind = "file"
    /\ v = "targz" => info.json_ok
    /\ packager_function(v, p, TRUE, content[p], TRUE, EmptyTree, NoMeta, "ok").ok

\* The package file such an invocation writes.
CleanOutput(v, p, t) ==
    [st |-> "ok",
     tree |-> packager_function(v, p, TRUE, content[p], TRUE, EmptyTree, NoMeta, "ok").dest,
     meta |-> [present |-> TRUE, entries |-> BuildInfo(v, info.entries, p, t)]]

\* The invocation behaves as one from a clean working directory does: it aborts,
\* with no subprocess failing on its own, only if the clean one aborts; it exits
\* with zero only if the clean one does, and then the package file is the clean
\* one's.
AsFromClean(r) ==
    /\ Exited(r) /\ pc[r] = "aborted" /\ ~st[r].env =>
          ~CleanRunSucceeds(variant, args[r].platform_id)
    /\ pc[r] = "done" =>
          /\ CleanRunSucceeds(variant, args[r].platform_id)
          /\ outFile[OutName(r)] = CleanOutput(variant, args[r].platform_id, args[r].package_tag)

\* C8 as claimed: after any earlier invocations with the same arguments, successful
\* or aborted at any step, an invocation behaves as from a clean scratch area.
C8_AsClaimed == \A r \in Procs : AsFromClean(r)

\* What earlier invocations left for r does no harm: no truncated archive, nothing
\* in the package directory and, where 7z extracts, no extracted tree.
LeftHarmless(r) ==
    /\ hist[r].start.arch # "partial"
    /\ ~hist[r].start.pkg
    /\ ~(hist[r].start.src /\ args[r].platform_id \in PlatformIds
           /\ PLATFORMS[args[r].platform_id].unarchive_cmd = <<"7z", "x">>)

\* C8 amended: the scratch directories are state the invocations share.  An
\* invocation behaves as from a clean scratch area, and overwrites the same-named
\* package file, when the earlier ones left no truncated archive, nothing in
\* _packages/P and (for the 7z platform) no extracted tree; when they left something
\* in _packages/P, every invocation that reaches the packager aborts at its
\* precondition.
C8_RunIndependence ==
    \A r \in Procs :
        /\ LeftHarmless(r) => AsFromClean(r)
        /\ hist[r].start.pkg /\ "package" \in Range(hist[r].attempts) /\ pc[r] # "package" =>
              pc[r] \in {"raising", "aborted"} /\ st[r].at = "package_dir_not_empty"

\* C8 witness: a second invocation with the arguments of a successful first one has
\* found the extracted tree and the package file of the first, and has replaced
\* the package file.
C8_Witness ==
    \E r \in Procs :
        /\ pc[r] = "done" /\ runs = 2
        /\ LeftHarmless(r)
        /\ hist[r].start.src
        /\ OutName(r) \in hist[r].start.out
        /\ outFile[OutName(r)] = CleanOutput(variant, args[r].platform_id, args[r].package_tag)

\* What the steps before the failing one created is there when the step has failed.
LeftInPlace(r) ==
    LET p == args[r].platform_id
        k == StepNo(st[r].failStep)
    IN  /\ k > StepNo("mkdir_upstream") => upDir[p]
        /\ k > StepNo("mkdir_package") /\ k < StepNo("final") => pkgDir[p]
        /\ k = StepNo("extract") \/ (k = StepNo("unlink") /\ st[r].at = "unlink") =>
              arch[p] # "none"
        /\ k > StepNo("extract") => srcDir[p] /\ srcTree[p] = content[p]
        /\ k = StepNo("package") /\ st[r].at \in {"rename", "check_executables", "libusb"} =>
              \A x \in Paths \ {"VERSION", "YOSYS-VERSION"} : pkgTree[p][x] = content[p][x]
        /\ k > StepNo("package") /\ k < StepNo("final") =>
              PackagedTree(p, pkgTree[p])
        /\ (k > StepNo("metadata") /\ k < StepNo("final"))
              \/ (k = StepNo("metadata") /\ st[r].at = "run") =>
              pkgMeta[p].present
        /\ k > StepNo("archive") => outFile[OutName(r)].st = "ok"

\* An invocation that has failed keeps what its steps left.
C9_State ==
    \A r \in Procs :
        pc[r] \in {"raising", "aborted"} /\ args[r].platform_id \in PlatformIds => LeftInPlace(r)

\* The way from the failure to the exit changes no file and no directory.
C9_Step == \A r \in Procs : pc[r] = "raising" /\ pc'[r] = "aborted" => fsvars' = fsvars

\* C9: when an invocation aborts at step k, the directories _upstream/P/ and
\* _packages/P/, the archive not yet deleted, the extracted tree and the package tree
\* assembled so far are present as step k left them; the abort deletes nothing.
C9_NoCleanupOnError == []C9_State /\ [][C9_Step]_vars

\* C9 witness: an invocation has aborted at the archiving step and the assembled
\* package directory, with its metadata, and the extracted tree are in place.
C9_Witness ==
    \E r \in Procs :
        /\ pc[r] = "aborted" /\ st[r].failStep = "archive"
        /\ pkgDir[args[r].platform_id]
        /\ PackagedTree(args[r].platform_id, pkgTree[args[r].platform_id])
        /\ pkgMeta[args[r].platform_id].present
        /\ srcDir[args[r].platform_id]

\* C10: invocations for different platform ids use disjoint scratch directories:
\* as long as no other invocation for its platform id has been alive since it
\* started, an invocation behaves as it does alone, whatever invocations for other
\* platform ids do meanwhile.  (Invocations for the same platform id share the
\* directories without a lock: the witness is an interleaving in which one that
\* succeeds alone aborts.)
C10_DisjointPlatforms ==
    \A r \in Procs : hist[r].undisturbed /\ LeftHarmless(r) => AsFromClean(r)

\* C10 witness: two overlapping invocations for one platform id, no subprocess of
\* either failing on its own; one of them, which succeeds alone, has aborted.
C10_Witness ==
    \E r \in Procs : \E q \in Procs \ {r} :
        /\ args[q].platform_id = args[r].platform_id
        /\ hist[r].overlapped /\ hist[q].overlapped /\ LeftHarmless(r)
        /\ CleanRunSucceeds(variant, args[r].platform_id)
        /\ pc[r] = "aborted" /\ ~st[r].env
        /\ ~st[q].env

\* The packager of invocation r is called on an empty source_dir or a non-empty
\* dest_dir.
PreconditionBroken(r) ==
    LET p == args[r].platform_id
    IN  /\ pc[r] = "package" /\ p \in PlatformIds
        /\ srcDir[p] /\ pkgDir[p]
        /\ ~AnyEntry(srcTree[p]) \/ DirNonEmpty(pkgTree[p], pkgMeta[p])

\* Such a call raises at one of the two assertions and leaves the directories as
\* they were; no path was renamed or validated.
C11_Step ==
    \A r \in Procs :
        PreconditionBroken(r) /\ pc'[r] # pc[r] =>
            /\ pc'[r] = "raising"
            /\ st'[r].failStep = "package"
            /\ st'[r].at = (IF ~AnyEntry(srcTree[args[r].platform_id])
                            THEN "yosys_dir_empty" ELSE "package_dir_not_empty")
            /\ st'[r].path = ""
            /\ fsvars' = fsvars

\* C11: whenever the packaging routine is invoked with an empty source_dir or a
\* non-empty dest_dir, it fails at its precondition before copying anything:
\* dest_dir's contents are unchanged, nothing is renamed and nothing validated.
C11_PackagingPreconditions == [][C11_Step]_vars

\* C11 witness: the packager was called on a complete source tree and a dest_dir
\* holding a file; it has raised at the precondition and the file is all that
\* dest_dir holds.
C11_Witness ==
    /\ pc[PackProc] = "raising" /\ st[PackProc].at = "package_dir_not_empty"
    /\ srcTree[PackId] = FullTree(PackId)
    /\ pkgTree[PackId] = LeftOver

\* Invocation r has a known platform id and the build-info path is absent or is
\* no regular file.
NoBuildInfo(r) == args[r].platform_id \in PlatformIds /\ info.kind # "file"

\* Such an invocation is at the lookup or at the check, or has failed at the check:
\* it has attempted neither a mkdir nor the download.
C12_State ==
    \A r \in Procs :
        NoBuildInfo(r) =>
            /\ pc[r] \in {"lookup", "check_info", "raising", "aborted"}
            /\ IsPrefix(hist[r].attempts, <<"lookup", "check_info">>)
            /\ pc[r] \in {"raising", "aborted"} =>
                  st[r].failStep = "check_info" /\ st[r].at = "assert"
            /\ pc[r] = "aborted" => st[r].exit # 0
            /\ ~upDir[args[r].platform_id] /\ ~pkgDir[args[r].platform_id]
            /\ arch[args[r].platform_id] = "none"

\* No step of such an invocation changes the file system.
C12_Step ==
    \A r \in Procs :
        NoBuildInfo(r) /\ args'[r] = args[r] /\ pc'[r] # pc[r] => fsvars' = fsvars

\* C12: for a known platform id, if the build-info input path does not exist or is
\* not a regular file, the invocation aborts at the check that follows the lookup,
\* before any scratch directory is created and before the download starts, and no
\* step of it changes the file system.
C12_EarlyBuildInfoCheck == []C12_State /\ [][C12_Step]_vars

\* C12 witness: an invocation with a known platform id has aborted at the check on
\* a build-info path that is a directory, and the working directory is as clean
\* as it was.
C12_Witness ==
    \E r \in Procs :
        /\ pc[r] = "aborted" /\ args[r].platform_id \in PlatformIds
        /\ info.kind = "dir"
        /\ st[r].failStep = "check_info" /\ st[r].exit = 1
        /\ \A p \in PlatformIds : ~upDir[p] /\ ~pkgDir[p]

====
